---- MODULE Spec2Model ----
(***************************************************************************)
(* DSA key handling utilities (pkcs11/util/dsa.py): conversion between     *)
(* PKCS #11 attribute maps / raw signatures and the RFC 3279 DER           *)
(* structures Dss-Parms, DSAPublicKey and Dss-Sig-Value.                   *)
(*                                                                         *)
(* Byte strings are sequences over 0..255.  A Python int is the record     *)
(* [neg, mag]: its sign and its magnitude as the shortest big-endian byte  *)
(* string (zero is the empty string), so values of 160 bits and more keep  *)
(* their full width.  A call's outcome is [status, value]: status "OK"     *)
(* with the returned value, or the kind of the exception raised with the   *)
(* value <<>>.                                                             *)
(***************************************************************************)
EXTENDS Integers, Sequences, FiniteSets, TLC

VARIABLES
    obj,        \* attribute map given to the last map encoder
    signature,  \* raw signature given to the last encode_dsa_signature
    der,        \* the DER buffer the caller holds
    origin,     \* where der comes from: [fn, tamper]
    call        \* the last codec call: [fn, status, value]

vars == <<obj, signature, der, origin, call>>

\* ------------------------------------------------------------ byte strings

Zeros(n) == [i \in 1..n |-> 0]

Fill(b, n) == [i \in 1..n |-> b]

RECURSIVE StripZeros(_)
StripZeros(b) ==
    IF b = <<>> THEN <<>>
    ELSE IF b[1] = 0 THEN StripZeros(Tail(b))
    ELSE b

Invert(b) == [i \in 1..Len(b) |-> 255 - b[i]]

RECURSIVE AddOne(_)
AddOne(b) ==
    IF b = <<>> THEN <<>>
    ELSE LET n == Len(b) IN
         IF b[n] = 255 THEN AddOne(SubSeq(b, 1, n - 1)) \o <<0>>
         ELSE SubSeq(b, 1, n - 1) \o <<b[n] + 1>>

\* two's complement negation at the width of b
Negate(b) == AddOne(Invert(b))

RECURSIVE ToBase256(_)
ToBase256(n) ==
    IF n < 256 THEN <<n>> ELSE ToBase256(n \div 256) \o <<n % 256>>

RECURSIVE FromBase256(_)
FromBase256(b) ==
    IF b = <<>> THEN 0
    ELSE LET n == Len(b) IN 256 * FromBase256(SubSeq(b, 1, n - 1)) + b[n]

\* ------------------------------------------------------------ outcomes

Ok(v) == [status |-> "OK", value |-> v]

Fail(kind) == [status |-> kind, value |-> <<>>]

\* ------------------------------------------------------------ Python int

\* int.from_bytes(b, byteorder='big')
from_bytes(b) == [neg |-> FALSE, mag |-> StripZeros(b)]

\* the mutant: the high bytes are dropped instead of raising OverflowError
to_bytes_truncating(v, length) ==
    IF v.neg THEN Fail("OVERFLOW")
    ELSE LET n == Len(v.mag) IN
         IF n > length THEN Ok(SubSeq(v.mag, n - length + 1, n))
         ELSE Ok(Zeros(length - n) \o v.mag)

\* int.to_bytes(length, byteorder='big'): OverflowError for a negative int
\* and for one that needs more than length bytes
to_bytes(v, length) ==
    IF v.neg \/ Len(v.mag) > length THEN Fail("OVERFLOW")
    ELSE Ok(Zeros(length - Len(v.mag)) \o v.mag)

\* pkcs11.util.biginteger: the shortest big-endian unsigned bytes of v,
\* a single zero byte for zero, INVALID_INPUT for a negative v
biginteger(v) ==
    IF v.neg THEN Fail("INVALID_INPUT")
    ELSE IF v.mag = <<>> THEN Ok(<<0>>)
    ELSE Ok(v.mag)

\* ------------------------------------------------------------ DER

TagInteger == 2

TagSequence == 48

\* the ASN.1 schemas of pyasn1_modules.rfc3279, fields in wire order
Dss_Parms == <<"p", "q", "g">>

Dss_Sig_Value == <<"r", "s">>

RECURSIVE StripOnes(_)
StripOnes(b) ==
    IF Len(b) >= 2 /\ b[1] = 255 /\ b[2] >= 128 THEN StripOnes(Tail(b))
    ELSE b

\* the mutant: no sign octet before a magnitude whose high bit is set
IntegerContentsUnsigned(v) ==
    IF v.mag = <<>> THEN <<0>> ELSE v.mag

\* contents octets of an INTEGER: shortest two's complement
IntegerContents(v) ==
    IF v.mag = <<>> THEN <<0>>
    ELSE IF v.neg THEN StripOnes(Negate(<<0>> \o v.mag))
    ELSE IF v.mag[1] >= 128 THEN <<0>> \o v.mag
    ELSE v.mag

\* value of the contents octets of an INTEGER (signed, any length)
IntegerValue(c) ==
    IF c = <<>> THEN [neg |-> FALSE, mag |-> <<>>]
    ELSE IF c[1] >= 128 THEN [neg |-> TRUE, mag |-> StripZeros(Negate(c))]
    ELSE [neg |-> FALSE, mag |-> StripZeros(c)]

\* definite length octets: short form below 128, long form otherwise
EncodeLength(n) ==
    IF n < 128 THEN <<n>>
    ELSE LET d == ToBase256(n) IN <<128 + Len(d)>> \o d

EncodeTLV(tag, contents) == <<tag>> \o EncodeLength(Len(contents)) \o contents

EncodeInteger(v) == EncodeTLV(TagInteger, IntegerContents(v))

RECURSIVE EncodeComponents(_, _)
EncodeComponents(asn1, fields) ==
    IF fields = <<>> THEN <<>>
    ELSE EncodeInteger(asn1[Head(fields)]) \o EncodeComponents(asn1, Tail(fields))

\* encoder.encode of a SEQUENCE: the components in schema order
EncodeSequence(asn1, fields) == EncodeTLV(TagSequence, EncodeComponents(asn1, fields))

NoTLV == [ok |-> FALSE, tag |-> 0, contents |-> <<>>, rest |-> <<>>]

\* the mutant: a value that runs past the end of the buffer is cut short
ParseTLVLenient(buf) ==
    IF Len(buf) < 2 \/ buf[2] >= 128 THEN NoTLV
    ELSE LET last == IF 2 + buf[2] > Len(buf) THEN Len(buf) ELSE 2 + buf[2] IN
         [ok |-> TRUE, tag |-> buf[1],
          contents |-> SubSeq(buf, 3, last),
          rest |-> SubSeq(buf, last + 1, Len(buf))]

\* one tag-length-value off the front of buf; fails on a short buffer, an
\* indefinite length, or a value longer than what is left
ParseTLV(buf) ==
    IF Len(buf) < 2 THEN NoTLV
    ELSE LET l == buf[2]
             size == IF l > 128 THEN l - 128 ELSE 0
             hdr == 2 + size
         IN  IF l = 128 \/ Len(buf) < hdr THEN NoTLV
             ELSE LET length == IF l < 128 THEN l
                                ELSE FromBase256(SubSeq(buf, 3, hdr))
                  IN  IF Len(buf) - hdr < length THEN NoTLV
                      ELSE [ok |-> TRUE, tag |-> buf[1],
                            contents |-> SubSeq(buf, hdr + 1, hdr + length),
                            rest |-> SubSeq(buf, hdr + length + 1, Len(buf))]

NoValue == [ok |-> FALSE, value |-> <<>>, rest |-> <<>>]

\* decoder.decode(buf, asn1Spec=Integer()): (value, rest of the buffer)
DecodeInteger(buf) ==
    LET t == ParseTLV(buf) IN
    IF t.ok /\ t.tag = TagInteger
    THEN [ok |-> TRUE, value |-> IntegerValue(t.contents), rest |-> t.rest]
    ELSE NoValue

\* the components of a SEQUENCE, one INTEGER per field of the schema; a
\* missing or an extra component is an error
RECURSIVE DecodeComponents(_, _)
DecodeComponents(head, fields) ==
    IF head = <<>> THEN [ok |-> fields = <<>>, values |-> <<>>]
    ELSE IF fields = <<>> THEN [ok |-> FALSE, values |-> <<>>]
    ELSE LET c == DecodeInteger(head) IN
         IF ~c.ok THEN [ok |-> FALSE, values |-> <<>>]
         ELSE LET more == DecodeComponents(c.rest, Tail(fields)) IN
              IF ~more.ok THEN [ok |-> FALSE, values |-> <<>>]
              ELSE [ok |-> TRUE, values |-> <<c.value>> \o more.values]

FieldIndex(fields, name) == CHOOSE i \in 1..Len(fields) : fields[i] = name

\* decoder.decode(buf, asn1Spec=<SEQUENCE schema>): (value, rest)
DecodeSequence(buf, fields) ==
    LET t == ParseTLV(buf) IN
    IF ~(t.ok /\ t.tag = TagSequence) THEN NoValue
    ELSE LET c == DecodeComponents(t.contents, fields) IN
         IF ~c.ok THEN NoValue
         ELSE [ok |-> TRUE,
               value |-> [f \in {fields[i] : i \in 1..Len(fields)} |->
                             c.values[FieldIndex(fields, f)]],
               rest |-> t.rest]

\* ------------------------------------------------------------ the codec

BASE == "BASE"

PRIME == "PRIME"

SUBPRIME == "SUBPRIME"

VALUE == "VALUE"

\* r and s are both 20 bytes
SigWidth == 20

HasKeys(o, keys) == keys \subseteq DOMAIN o

\* the mutant: BASE and PRIME change places
decode_dsa_domain_parameters_swapped(buf) ==
    LET d == DecodeSequence(buf, Dss_Parms) IN
    IF ~d.ok THEN Fail("DECODE_ERROR")
    ELSE LET g == biginteger(d.value["g"])
             p == biginteger(d.value["p"])
             q == biginteger(d.value["q"])
         IN  IF g.status # "OK" THEN Fail(g.status)
             ELSE IF p.status # "OK" THEN Fail(p.status)
             ELSE IF q.status # "OK" THEN Fail(q.status)
             ELSE Ok((BASE :> p.value) @@ (PRIME :> g.value) @@ (SUBPRIME :> q.value))

decode_dsa_domain_parameters(buf) ==
    LET d == DecodeSequence(buf, Dss_Parms) IN
    IF ~d.ok THEN Fail("DECODE_ERROR")
    ELSE LET g == biginteger(d.value["g"])
             p == biginteger(d.value["p"])
             q == biginteger(d.value["q"])
         IN  IF g.status # "OK" THEN Fail(g.status)
             ELSE IF p.status # "OK" THEN Fail(p.status)
             ELSE IF q.status # "OK" THEN Fail(q.status)
             ELSE Ok((BASE :> g.value) @@ (PRIME :> p.value) @@ (SUBPRIME :> q.value))

\* the mutant: an absent attribute reads as the empty byte string
encode_dsa_domain_parameters_defaulting(o) ==
    LET get(k) == IF k \in DOMAIN o THEN o[k] ELSE <<>> IN
    Ok(EncodeSequence([g |-> from_bytes(get(BASE)),
                       p |-> from_bytes(get(PRIME)),
                       q |-> from_bytes(get(SUBPRIME))], Dss_Parms))

\* the mutant: q is filled from PRIME and p from SUBPRIME
encode_dsa_domain_parameters_swapped(o) ==
    IF ~HasKeys(o, {BASE, PRIME, SUBPRIME}) THEN Fail("MISSING_ATTRIBUTE")
    ELSE Ok(EncodeSequence([g |-> from_bytes(o[BASE]),
                            p |-> from_bytes(o[SUBPRIME]),
                            q |-> from_bytes(o[PRIME])], Dss_Parms))

encode_dsa_domain_parameters(o) ==
    IF ~HasKeys(o, {BASE, PRIME, SUBPRIME}) THEN Fail("MISSING_ATTRIBUTE")
    ELSE Ok(EncodeSequence([g |-> from_bytes(o[BASE]),
                            p |-> from_bytes(o[PRIME]),
                            q |-> from_bytes(o[SUBPRIME])], Dss_Parms))

encode_dsa_public_key(key) ==
    IF ~HasKeys(key, {VALUE}) THEN Fail("MISSING_ATTRIBUTE")
    ELSE Ok(EncodeInteger(from_bytes(key[VALUE])))

\* the mutant: the bytes of the INTEGER are returned as they stand
decode_dsa_public_key_raw(buf) ==
    LET t == ParseTLV(buf) IN
    IF t.ok /\ t.tag = TagInteger THEN Ok(t.contents) ELSE Fail("DECODE_ERROR")

decode_dsa_public_key(buf) ==
    LET d == DecodeInteger(buf) IN
    IF ~d.ok THEN Fail("DECODE_ERROR") ELSE biginteger(d.value)

\* the mutant: s comes first
encode_dsa_signature_swapped(sig) ==
    LET part == Len(sig) \div 2
        r == SubSeq(sig, 1, part)
        s == SubSeq(sig, part + 1, Len(sig))
    IN  Ok(EncodeSequence([r |-> from_bytes(s), s |-> from_bytes(r)], Dss_Sig_Value))

encode_dsa_signature(sig) ==
    LET part == Len(sig) \div 2
        r == SubSeq(sig, 1, part)
        s == SubSeq(sig, part + 1, Len(sig))
    IN  Ok(EncodeSequence([r |-> from_bytes(r), s |-> from_bytes(s)], Dss_Sig_Value))

\* the mutant: each component keeps its own shortest length
decode_dsa_signature_unpadded(buf) ==
    LET d == DecodeSequence(buf, Dss_Sig_Value) IN
    IF ~d.ok THEN Fail("DECODE_ERROR")
    ELSE IF d.value["r"].neg \/ d.value["s"].neg THEN Fail("OVERFLOW")
    ELSE Ok(d.value["r"].mag \o d.value["s"].mag)

decode_dsa_signature(buf) ==
    LET d == DecodeSequence(buf, Dss_Sig_Value) IN
    IF ~d.ok THEN Fail("DECODE_ERROR")
    ELSE LET r == to_bytes(d.value["r"], SigWidth)
             s == to_bytes(d.value["s"], SigWidth)
         IN  IF r.status # "OK" THEN Fail(r.status)
             ELSE IF s.status # "OK" THEN Fail(s.status)
             ELSE Ok(r.value \o s.value)

\* ------------------------------------------------------------ inputs

MaxLeadingZeros == 1

MaxExtra == 2

MaxTrailing == 1

LeadBytes == {1, 127, 128}

FillBytes == {0, 255}

TrailingBytes == {0, 48}

\* magnitudes of attribute values: zero, one byte, high bit set, two bytes
Bodies == {<<>>, <<1>>, <<128>>, <<127, 255>>}

AttrValues == {Zeros(z) \o b : z \in 0..MaxLeadingZeros, b \in Bodies}

\* a 1024-bit prime-sized value: its DER length takes the long form
LongValue == <<128>> \o Fill(1, 127)

NoAttrs == [k \in {} |-> <<>>]

DomainMaps == UNION {[K -> AttrValues] : K \in SUBSET {BASE, PRIME, SUBPRIME}}

KeyMaps == [{VALUE} -> AttrValues \cup {LongValue}]

FullMaps ==
    { (VALUE :> <<2>>) @@ m : m \in UNION {[K -> {<<3>>, <<0, 200>>}] :
                                             K \in SUBSET {BASE, PRIME, SUBPRIME}} }
    \cup {[k \in {BASE, PRIME, SUBPRIME} |-> LongValue]}

AttrMaps == DomainMaps \cup KeyMaps \cup FullMaps

\* the byte strings of n bytes a signature half is drawn from
Halves(n) ==
    {Zeros(n)} \cup
    { Zeros(z) \o <<b>> \o Fill(f, n - z - 1) :
        z \in (0..MaxLeadingZeros) \cup {n - 1}, b \in LeadBytes, f \in FillBytes }

BasicHalves(n) == {Zeros(n - 1) \o <<1>>, Fill(255, n)}

SigLengths == (2 * SigWidth - 1)..(2 * SigWidth + MaxExtra)

Signatures ==
    UNION { LET rl == n \div 2
                sl == n - rl
            IN  { r \o s : r \in Halves(rl), s \in BasicHalves(sl) } \cup
                { r \o s : r \in BasicHalves(rl), s \in Halves(sl) }
          : n \in SigLengths }

\* DER the caller did not get from this codec
CraftedDer == {
    <<48, 6, 2, 1, 1, 2, 1, 1>>,
    <<48, 6, 2, 1, 255, 2, 1, 1>>,
    <<48, 6, 2, 1, 1, 2, 1, 128>>,
    <<48, 8, 2, 2, 0, 1, 2, 2, 0, 1>>,
    <<48, 129, 6, 2, 1, 1, 2, 1, 1>>,
    <<48, 128, 2, 1, 1, 2, 1, 1, 0, 0>>,
    <<49, 6, 2, 1, 1, 2, 1, 1>>,
    <<48, 6, 4, 1, 1, 2, 1, 1>>,
    <<48, 3, 2, 1, 1>>,
    <<48, 9, 2, 1, 1, 2, 1, 2, 2, 1, 3>>,
    <<48, 9, 2, 1, 1, 2, 1, 255, 2, 1, 3>>,
    <<48, 5, 2, 1, 1, 2, 4>>,
    <<48, 4, 2, 0, 2, 0>>,
    <<2, 0>>,
    <<2, 1, 5>>,
    <<2, 1, 128>>,
    <<2, 2, 0, 128>>,
    <<2, 2, 255, 127>>,
    <<48, 27, 2, 22, 0, 0, 1>> \o Zeros(19) \o <<2, 1, 1>>,
    <<48, 26, 2, 21, 1>> \o Zeros(20) \o <<2, 1, 1>>
}

\* ------------------------------------------------------------ the caller

Encoders == {"encode_dsa_domain_parameters", "encode_dsa_public_key",
             "encode_dsa_signature"}

Decoders == {"decode_dsa_domain_parameters", "decode_dsa_public_key",
             "decode_dsa_signature"}

NoCall == [fn |-> "none", status |-> "NONE", value |-> <<>>]

NoOrigin == [fn |-> "none", tamper |-> "none", extra |-> 0]

Called(fn, out) == [fn |-> fn, status |-> out.status, value |-> out.value]

\* nothing has been done with the input yet
Fresh == call = NoCall /\ origin = NoOrigin

\* the buffer after an encoder call: its output, or nothing when it raised
Produced(fn, out) ==
    /\ der' = out.value
    /\ origin' = IF out.status = "OK"
                 THEN [fn |-> fn, tamper |-> "intact", extra |-> 0]
                 ELSE NoOrigin
    /\ call' = Called(fn, out)

\* the caller holds an attribute map, a raw signature, or DER from elsewhere
Init ==
    /\ call = NoCall
    /\ \/ obj \in AttrMaps /\ signature = <<>> /\ der = <<>> /\ origin = NoOrigin
       \/ obj = NoAttrs /\ signature \in Signatures /\ der = <<>> /\ origin = NoOrigin
       \/ /\ obj = NoAttrs
          /\ signature = <<>>
          /\ der \in CraftedDer
          /\ origin = [fn |-> "caller", tamper |-> "crafted", extra |-> 0]

EncodeDomainParameters ==
    /\ Fresh
    /\ Produced("encode_dsa_domain_parameters", encode_dsa_domain_parameters(obj))
    /\ UNCHANGED <<obj, signature>>

EncodePublicKey ==
    /\ Fresh
    /\ Produced("encode_dsa_public_key", encode_dsa_public_key(obj))
    /\ UNCHANGED <<obj, signature>>

EncodeSignature ==
    /\ Fresh
    /\ Produced("encode_dsa_signature", encode_dsa_signature(signature))
    /\ UNCHANGED <<obj, signature>>

DecodeDomainParameters ==
    /\ call' = Called("decode_dsa_domain_parameters", decode_dsa_domain_parameters(der))
    /\ UNCHANGED <<obj, signature, der, origin>>

DecodePublicKey ==
    /\ call' = Called("decode_dsa_public_key", decode_dsa_public_key(der))
    /\ UNCHANGED <<obj, signature, der, origin>>

DecodeSignature ==
    /\ call' = Called("decode_dsa_signature", decode_dsa_signature(der))
    /\ UNCHANGED <<obj, signature, der, origin>>

\* the buffer loses its tail; the caller keeps only the damaged buffer
Truncate ==
    /\ origin.tamper = "intact"
    /\ \E n \in 0..(Len(der) - 1) : der' = SubSeq(der, 1, n)
    /\ origin' = [origin EXCEPT !.tamper = "truncated"]
    /\ obj' = NoAttrs
    /\ signature' = <<>>
    /\ call' = NoCall

\* bytes follow the encoding in the buffer
AppendTrailing ==
    /\ origin.tamper \in {"intact", "trailing"}
    /\ origin.extra < MaxTrailing
    /\ \E b \in TrailingBytes : der' = der \o <<b>>
    /\ origin' = [origin EXCEPT !.tamper = "trailing", !.extra = @ + 1]
    /\ call' = NoCall
    /\ UNCHANGED <<obj, signature>>

Next ==
    \/ EncodeDomainParameters
    \/ EncodePublicKey
    \/ EncodeSignature
    \/ DecodeDomainParameters
    \/ DecodePublicKey
    \/ DecodeSignature
    \/ Truncate
    \/ AppendTrailing

Spec == Init /\ [][Next]_vars

\* ------------------------------------------------------------ properties

\* der is the unmodified output of encoder e for the input the caller holds
Intact(e) == origin.fn = e /\ origin.tamper = "intact"

RHalf == SubSeq(signature, 1, Len(signature) \div 2)

SHalf == SubSeq(signature, Len(signature) \div 2 + 1, Len(signature))

\* the INTEGERs of the SEQUENCE in der, in wire order, read one by one
WireIntegers ==
    LET body == ParseTLV(der).contents
        i1 == DecodeInteger(body)
        i2 == DecodeInteger(i1.rest)
        i3 == DecodeInteger(i2.rest)
    IN  <<i1.value, i2.value, i3.value>>

\* C1: decoding the encoding of a 40-byte signature gives the signature
\* back byte for byte, whatever its halves' leading bytes are
C1_SignatureRoundTrip ==
    (/\ call.fn = "decode_dsa_signature"
     /\ Intact("encode_dsa_signature")
     /\ Len(signature) = 2 * SigWidth)
    => (call.status = "OK" /\ call.value = signature)

\* a round trip of a signature whose r has its high bit set (sign octet in
\* the DER) and whose s starts with zero bytes
C1_Witness ==
    /\ call.fn = "decode_dsa_signature"
    /\ Intact("encode_dsa_signature")
    /\ Len(signature) = 2 * SigWidth
    /\ signature[1] >= 128
    /\ signature[SigWidth + 1] = 0
    /\ der[4] = SigWidth + 1
    /\ der[5] = 0
    /\ call.value = signature

\* C2: encode_dsa_signature on an odd-length input fails with INVALID_INPUT
\* and returns no DER
C2_OddLengthRejected ==
    (call.fn = "encode_dsa_signature" /\ Len(signature) % 2 = 1)
    => (call.status = "INVALID_INPUT" /\ call.value = <<>>)

\* C3: decode_dsa_signature of a well-formed Dss-Sig-Value with r or s of
\* more than 20 bytes fails with OVERFLOW and returns nothing
C3_OverflowRejected ==
    LET d == DecodeSequence(der, Dss_Sig_Value) IN
    (/\ call.fn = "decode_dsa_signature"
     /\ d.ok
     /\ \/ Len(d.value["r"].mag) > SigWidth
        \/ Len(d.value["s"].mag) > SigWidth)
    => (call.status = "OVERFLOW" /\ call.value = <<>>)

\* the encoding of a 42-byte signature whose r is 21 significant bytes,
\* decoded
C3_Witness ==
    /\ call.fn = "decode_dsa_signature"
    /\ Intact("encode_dsa_signature")
    /\ Len(signature) = 2 * SigWidth + 2
    /\ signature[1] # 0
    /\ Len(StripZeros(SHalf)) <= SigWidth
    /\ call.status = "OVERFLOW"

\* C4: a successful decode_dsa_signature returns exactly 40 bytes, r then
\* s, each 20 bytes big-endian left-padded with zeros; Dss-Sig-Value{1, 1}
\* gives 19 zero bytes and 0x01, twice
C4_FixedWidthResult ==
    /\ (call.fn = "decode_dsa_signature" /\ call.status = "OK") =>
         LET w == WireIntegers
             v == call.value
         IN  /\ Len(v) = 40
             /\ ~w[1].neg /\ ~w[2].neg
             /\ StripZeros(SubSeq(v, 1, 20)) = w[1].mag
             /\ StripZeros(SubSeq(v, 21, 40)) = w[2].mag
    /\ (call.fn = "decode_dsa_signature" /\ der = <<48, 6, 2, 1, 1, 2, 1, 1>>) =>
         /\ call.status = "OK"
         /\ call.value = Zeros(19) \o <<1>> \o Zeros(19) \o <<1>>

\* Dss-Sig-Value{r=1, s=1} handed in from outside and decoded
C4_Witness ==
    /\ call.fn = "decode_dsa_signature"
    /\ origin.tamper = "crafted"
    /\ der = <<48, 6, 2, 1, 1, 2, 1, 1>>
    /\ call.status = "OK"
    /\ Len(call.value) = 40

\* C5: decoding the encoding of an attribute map gives exactly BASE, PRIME
\* and SUBPRIME, each the minimal-length form of the input value and so
\* the same integer
C5_DomainParametersRoundTrip ==
    (/\ call.fn = "decode_dsa_domain_parameters"
     /\ Intact("encode_dsa_domain_parameters"))
    => /\ call.status = "OK"
       /\ DOMAIN call.value = {BASE, PRIME, SUBPRIME}
       /\ \A k \in {BASE, PRIME, SUBPRIME} :
            /\ call.value[k] = biginteger(from_bytes(obj[k])).value
            /\ from_bytes(call.value[k]) = from_bytes(obj[k])

\* a round trip of a map whose BASE has a leading zero byte, whose PRIME
\* has its high bit set and whose SUBPRIME is another integer
C5_Witness ==
    /\ call.fn = "decode_dsa_domain_parameters"
    /\ Intact("encode_dsa_domain_parameters")
    /\ call.status = "OK"
    /\ obj[BASE] = <<0, 1>>
    /\ obj[PRIME] = <<128>>
    /\ obj[SUBPRIME] = <<127, 255>>
    /\ call.value[BASE] = <<1>>

\* C6: for VALUE = encode(v), decoding the encoded public key gives
\* encode(v) back, v = 0 included
C6_PublicKeyRoundTrip ==
    (/\ call.fn = "decode_dsa_public_key"
     /\ Intact("encode_dsa_public_key")
     /\ obj[VALUE] = biginteger(from_bytes(obj[VALUE])).value)
    => (call.status = "OK" /\ call.value = obj[VALUE])

\* the round trip of v = 0
C6_Witness ==
    /\ call.fn = "decode_dsa_public_key"
    /\ Intact("encode_dsa_public_key")
    /\ obj[VALUE] = <<0>>
    /\ der = <<2, 1, 0>>
    /\ call.value = <<0>>

\* the round trip of a VALUE whose high bit is set
C6_WitnessHighBit ==
    /\ call.fn = "decode_dsa_public_key"
    /\ Intact("encode_dsa_public_key")
    /\ obj[VALUE] = <<128>>
    /\ call.value = <<128>>

\* C7: the map encoders fail with MISSING_ATTRIBUTE and return no DER when
\* a key they read is absent, whichever it is and whatever else is present
C7_MissingAttribute ==
    /\ (/\ call.fn = "encode_dsa_domain_parameters"
        /\ \E k \in {BASE, PRIME, SUBPRIME} : k \notin DOMAIN obj)
       => (call.status = "MISSING_ATTRIBUTE" /\ call.value = <<>> /\ der = <<>>)
    /\ (call.fn = "encode_dsa_public_key" /\ VALUE \notin DOMAIN obj)
       => (call.status = "MISSING_ATTRIBUTE" /\ call.value = <<>> /\ der = <<>>)

\* encode_dsa_domain_parameters called with only SUBPRIME absent
C7_Witness ==
    /\ call.fn = "encode_dsa_domain_parameters"
    /\ DOMAIN obj = {BASE, PRIME, VALUE}
    /\ call.status = "MISSING_ATTRIBUTE"

\* encode_dsa_public_key called with the three other keys present
C7_WitnessPublicKey ==
    /\ call.fn = "encode_dsa_public_key"
    /\ DOMAIN obj = {BASE, PRIME, SUBPRIME}
    /\ call.status = "MISSING_ATTRIBUTE"

\* C8: each decoder fails with DECODE_ERROR and returns nothing on an empty
\* buffer and on a proper prefix of a valid encoding
C8_TruncatedRejected ==
    (/\ call.fn \in Decoders
     /\ (der = <<>> \/ origin.tamper = "truncated"))
    => (call.status = "DECODE_ERROR" /\ call.value = <<>>)

\* a Dss-Parms encoding cut inside its last INTEGER, decoded
C8_Witness ==
    /\ call.fn = "decode_dsa_domain_parameters"
    /\ origin = [fn |-> "encode_dsa_domain_parameters", tamper |-> "truncated",
                 extra |-> 0]
    /\ Len(der) >= 2
    /\ Len(der) = der[2] + 1
    /\ call.status = "DECODE_ERROR"

\* C9: a decoder given a valid encoding of its schema followed by extra
\* bytes fails with DECODE_ERROR
C9_TrailingRejected ==
    (/\ origin.tamper = "trailing"
     /\ \/ call.fn = "decode_dsa_domain_parameters"
           /\ origin.fn = "encode_dsa_domain_parameters"
        \/ call.fn = "decode_dsa_public_key" /\ origin.fn = "encode_dsa_public_key"
        \/ call.fn = "decode_dsa_signature" /\ origin.fn = "encode_dsa_signature")
    => call.status = "DECODE_ERROR"

\* C10: PRIME is p, SUBPRIME is q and BASE is g in both directions: the
\* encoder writes INTEGERs PRIME, SUBPRIME, BASE in that order, the decoder
\* returns the first INTEGER as PRIME, the second as SUBPRIME, the third
\* as BASE
C10_AttributeFieldMapping ==
    /\ (call.fn = "encode_dsa_domain_parameters" /\ call.status = "OK") =>
         /\ der = call.value
         /\ ParseTLV(der).tag = TagSequence
         /\ ParseTLV(der).rest = <<>>
         /\ ParseTLV(der).contents =
              EncodeInteger(from_bytes(obj[PRIME])) \o
              EncodeInteger(from_bytes(obj[SUBPRIME])) \o
              EncodeInteger(from_bytes(obj[BASE]))
    /\ (call.fn = "decode_dsa_domain_parameters" /\ call.status = "OK") =>
         LET w == WireIntegers IN
         /\ from_bytes(call.value[PRIME]) = w[1]
         /\ from_bytes(call.value[SUBPRIME]) = w[2]
         /\ from_bytes(call.value[BASE]) = w[3]

\* Dss-Parms{p=1, q=2, g=3} handed in from outside and decoded
C10_Witness ==
    /\ call.fn = "decode_dsa_domain_parameters"
    /\ der = <<48, 9, 2, 1, 1, 2, 1, 2, 2, 1, 3>>
    /\ call.status = "OK"
    /\ call.value[PRIME] = <<1>>
    /\ call.value[SUBPRIME] = <<2>>
    /\ call.value[BASE] = <<3>>

\* three different attribute values, encoded
C10_WitnessEncode ==
    /\ call.fn = "encode_dsa_domain_parameters"
    /\ call.status = "OK"
    /\ obj[BASE] = <<1>>
    /\ obj[PRIME] = <<128>>
    /\ obj[SUBPRIME] = <<127, 255>>
    /\ der = <<48, 11, 2, 2, 0, 128, 2, 2, 127, 255, 2, 1, 1>>

====
